---- MODULE Spec2Model ----
(***************************************************************************)
(* Seat reservation of the movie-ticket booking application.               *)
(*                                                                         *)
(* The store is the relational schema (tables bookings and booked_seats,   *)
(* the UNIQUE(showtime_id, seat_label) constraint, the realtime            *)
(* publication of booked_seats).  Each client is one browser tab showing   *)
(* the SeatSelection page: its React state, the fetchShowtimeAndSeats      *)
(* calls it has in flight, and the position of its handleBooking call.     *)
(* A step runs a handler up to the next request whose execution at the     *)
(* store another client can observe or influence, so that the calls of     *)
(* different clients interleave at the store.                              *)
(***************************************************************************)
EXTENDS Integers, Sequences, FiniteSets, TLC

VARIABLES
    showtimes,      \* table public.showtimes, joined with its hall: id -> row
    bookings,       \* table public.bookings: a set of rows
    booked_seats,   \* table public.booked_seats: a set of rows
    user,           \* useAuth().user of each client (NoUser when signed out)
    showtimeId,     \* route parameter of each client (NoShowtime: page not mounted)
    seats,          \* useState<Seat[]>
    selectedSeats,  \* useState<string[]>
    showtime,       \* useState<any>: the showtime row read, or Null
    loading,        \* useState(true)
    booking,        \* useState(false)
    toast,          \* title of the last toast shown since the page was opened
    hb,             \* the handleBooking call of each client
    fetches,        \* the fetchShowtimeAndSeats calls in flight of each client
    notif,          \* the postgres_changes events pending on each client's channel,
                    \* each with its payload
    channel,        \* the realtime channels each client has subscribed and not
                    \* removed
    orphans,        \* the handleBooking calls of each client that are still
                    \* running after the page that started them was left
    nextId,         \* the next id gen_random_uuid() gives a bookings row
    quota,          \* what the model still allows: booking rows to insert, store
                    \* requests to fail for a reason other than a conflict,
                    \* fetchShowtimeAndSeats calls of one client in flight
    outcome,        \* history: what each issued booking id was reported as
    conflicted,     \* history: the selection failed on a conflict and neither it
                    \* nor the seat map has changed since
    lastCall        \* history: the last call of toggleSeat (SpecToggle) or of
                    \* handleBooking (SpecSubmit), with the values it found, or
                    \* the last row deleted (SpecCascade)

vars == <<showtimes, bookings, booked_seats, user, showtimeId, seats, selectedSeats,
          showtime, loading, booking, toast, hb, fetches, notif, nextId, quota, outcome,
          conflicted, lastCall, channel, orphans>>

-----------------------------------------------------------------------------
(* Bounds of the model.                                                    *)

MaxBookings == 2   \* booking rows the store may hold
MaxFetch == 1      \* fetchShowtimeAndSeats calls one client has in flight
MaxFaults == 1     \* store requests that fail for a reason other than a conflict
                   \* (SpecFaults)
MaxRows == 2       \* row descriptors of a hall layout (SpecLayout)

Clients == {"c1", "c2"}
Users == {"u1", "u2"}
UserOf(c) == IF c = "c1" THEN "u1" ELSE "u2"

NoUser == "null"
NoShowtime == "undefined"
Null == [id |-> "null"]
NoCall == [op |-> "none"]

-----------------------------------------------------------------------------
(* Catalog data, authored by an administrator and read only by the page.   *)

\* theater_halls.seat_layout of the one hall: { seats: [{row, cols, type}] }
HallLayout == [seats |-> << [row |-> "A", cols |-> 2, type |-> "standard"] >>]

\* showtimes.ticket_price
TicketPrice(st) == IF st = "st1" THEN 10 ELSE 15

\* a row of showtimes joined with its hall
ShowtimeRow(st) ==
    [id |-> st, ticket_price |-> TicketPrice(st), seat_layout |-> HallLayout]

\* the table with the rows of the showtimes S
ShowtimesTable(S) == [st \in S |-> ShowtimeRow(st)]

-----------------------------------------------------------------------------
(* Pure helpers of the page.                                               *)

Range(s) == {s[i] : i \in DOMAIN s}

Includes(s, x) == \E i \in DOMAIN s : s[i] = x

RECURSIVE Filter(_, _)
\* prev.filter(s => s !== seatLabel)
Filter(s, x) ==
    IF s = <<>> THEN <<>>
    ELSE IF Head(s) = x THEN Filter(Tail(s), x)
         ELSE <<Head(s)>> \o Filter(Tail(s), x)

\* `${rowData.row}${col}`
SeatLabel(row, col) == row \o ToString(col)

\* an expansion that marks no seat as booked
RowSeatsAllFree(rowData, bookedSeatLabels) ==
    [col \in 1..rowData.cols |->
        [label |-> SeatLabel(rowData.row, col),
         row |-> rowData.row,
         col |-> col,
         type |-> rowData.type,
         isBooked |-> FALSE]]

\* an expansion that walks the columns of a row from the last to the first
RowSeatsDescending(rowData, bookedSeatLabels) ==
    [i \in 1..rowData.cols |->
        LET col == rowData.cols + 1 - i
        IN  [label |-> SeatLabel(rowData.row, col),
             row |-> rowData.row,
             col |-> col,
             type |-> rowData.type,
             isBooked |-> SeatLabel(rowData.row, col) \in bookedSeatLabels]]

\* the inner for loop of the layout expansion, one row descriptor
RowSeats(rowData, bookedSeatLabels) ==
    [col \in 1..rowData.cols |->
        [label |-> SeatLabel(rowData.row, col),
         row |-> rowData.row,
         col |-> col,
         type |-> rowData.type,
         isBooked |-> SeatLabel(rowData.row, col) \in bookedSeatLabels]]

RECURSIVE AllSeats(_, _)
\* layout.seats.forEach: the rows in declaration order
AllSeats(rows, bookedSeatLabels) ==
    IF rows = <<>> THEN <<>>
    ELSE RowSeats(Head(rows), bookedSeatLabels) \o AllSeats(Tail(rows), bookedSeatLabels)

\* toggleSeat without its first line: a booked seat is toggled like any other
toggleSeatUnguarded(prev, seatLabel, isBooked) ==
    IF Includes(prev, seatLabel) THEN Filter(prev, seatLabel)
    ELSE Append(prev, seatLabel)

\* a toggle that empties the selection when it deselects
toggleSeatDroppingAll(prev, seatLabel, isBooked) ==
    IF isBooked THEN prev
    ELSE IF Includes(prev, seatLabel) THEN <<>>
         ELSE Append(prev, seatLabel)

\* toggleSeat: the value setSelectedSeats is given
toggleSeat(prev, seatLabel, isBooked) ==
    IF isBooked THEN prev
    ELSE IF Includes(prev, seatLabel) THEN Filter(prev, seatLabel)
         ELSE Append(prev, seatLabel)

\* the three conditional class names of a seat button; each stands for one
\* presented state
SeatClasses(seat, selected) ==
    (IF seat.isBooked THEN {"booked"} ELSE {})
    \cup (IF ~seat.isBooked /\ ~Includes(selected, seat.label) THEN {"available"} ELSE {})
    \cup (IF Includes(selected, seat.label) THEN {"selected"} ELSE {})

\* the page shows the seat map (not the "Loading seats..." placeholder)
Rendered(c) == showtimeId[c] # NoShowtime /\ ~loading[c] /\ showtime[c] # Null

\* the first line of handleBooking without the test of the selection
ReturnsEarlyIgnoringSelection(u, st, selected) == u = NoUser \/ st = Null

\* the first line of handleBooking without the test of the user
ReturnsEarlyIgnoringUser(u, st, selected) == st = Null \/ Len(selected) = 0

\* if (!user || !showtime || selectedSeats.length === 0) return;
ReturnsEarly(u, st, selected) == u = NoUser \/ st = Null \/ Len(selected) = 0

\* a price that forgets the number of seats
totalPriceFlat(st, selected) == st.ticket_price

\* const totalPrice = showtime.ticket_price * selectedSeats.length
totalPrice(st, selected) == st.ticket_price * Len(selected)

\* a reservation list that covers only the first selected seat
seatReservationsFirst(selected, stId, bookingId) ==
    {[showtime_id |-> stId, seat_label |-> selected[i], booking_id |-> bookingId] :
        i \in DOMAIN selected \cap {1}}

\* selectedSeats.map(seatLabel => ({showtime_id, seat_label, booking_id}))
seatReservations(selected, stId, bookingId) ==
    {[showtime_id |-> stId, seat_label |-> selected[i], booking_id |-> bookingId] :
        i \in DOMAIN selected}

-----------------------------------------------------------------------------
(* The store.                                                              *)

\* a store without the constraint: every insert is accepted
NoConstraint(existing, rows) == FALSE

\* a constraint on seat_label alone
ViolatesUniqueAnyShowtime(existing, rows) ==
    \E r \in rows : \E e \in existing : e.seat_label = r.seat_label

\* UNIQUE(showtime_id, seat_label): the insert of rows is rejected as a whole
ViolatesUnique(existing, rows) ==
    \E r \in rows : \E e \in existing :
        e.showtime_id = r.showtime_id /\ e.seat_label = r.seat_label

\* "Users can create own bookings": WITH CHECK (auth.uid() = user_id)
BookingsInsertPolicy(uid, row) == uid # NoUser /\ uid = row.user_id

\* "Users can insert booked seats": WITH CHECK (auth.uid() IS NOT NULL)
BookedSeatsInsertPolicy(uid) == uid # NoUser

\* .from('booked_seats').select('seat_label').eq('showtime_id', showtimeId)
BookedSeatLabels(st) == {r.seat_label : r \in {x \in booked_seats : x.showtime_id = st}}

\* supabase.channel('booked_seats_changes').on('postgres_changes',
\* {event: '*', ..., filter: `showtime_id=eq.${showtimeId}`}, ...).subscribe()
Subscription(st) == [filter |-> st, state |-> "joined"]

\* clients with a joined channel whose filter showtime_id=eq.<st> matches a
\* change
Subscribers(st) ==
    {c \in Clients : \E s \in channel[c] : s.filter = st /\ s.state = "joined"}

\* bookings.showtime_id REFERENCES showtimes(id)
BookingsForeignKeys(row) == row.showtime_id \in DOMAIN showtimes

\* a table booked_seats without foreign keys
BookedSeatsNoForeignKeys(rows) == TRUE

\* booked_seats.showtime_id REFERENCES showtimes(id),
\* booked_seats.booking_id REFERENCES bookings(id)
BookedSeatsForeignKeys(rows) ==
    \A r \in rows :
        /\ r.showtime_id \in DOMAIN showtimes
        /\ \E b \in bookings : b.id = r.booking_id

\* no handleBooking call is running
Idle ==
    [pc |-> "idle", showtimeId |-> NoShowtime, selectedSeats |-> <<>>, bookingId |-> 0,
     error |-> "", retry |-> FALSE]

-----------------------------------------------------------------------------
\* Nobody has the page open.
NobodyThere ==
    /\ user = [c \in Clients |-> UserOf(c)]
    /\ showtimeId = [c \in Clients |-> NoShowtime]
    /\ seats = [c \in Clients |-> <<>>]
    /\ selectedSeats = [c \in Clients |-> <<>>]
    /\ showtime = [c \in Clients |-> Null]
    /\ loading = [c \in Clients |-> TRUE]
    /\ booking = [c \in Clients |-> FALSE]
    /\ toast = [c \in Clients |-> ""]
    /\ hb = [c \in Clients |-> Idle]
    /\ fetches = [c \in Clients |-> {}]
    /\ notif = [c \in Clients |-> {}]
    /\ conflicted = [c \in Clients |-> FALSE]
    /\ lastCall = NoCall
    /\ channel = [c \in Clients |-> {}]
    /\ orphans = [c \in Clients |-> {}]

\* The store after an earlier booking, by somebody else, of the seats
\* `earlier` of showtime st (of nothing: the empty store).
Sold(st, earlier) ==
    /\ bookings = IF earlier = <<>> THEN {}
                  ELSE {[id |-> 1, user_id |-> "u0", showtime_id |-> st,
                         seats |-> earlier,
                         total_price |-> totalPrice(ShowtimeRow(st), earlier),
                         booking_status |-> "confirmed"]}
    /\ booked_seats = seatReservations(earlier, st, 1)
    /\ nextId = IF earlier = <<>> THEN 1 ELSE 2
    /\ outcome = IF earlier = <<>> THEN <<>> ELSE (1 :> "success")

\* One showtime is on sale, nothing is booked, and no store request fails but
\* on a conflict.
Init ==
    /\ NobodyThere
    /\ Sold("st1", <<>>)
    /\ showtimes = ShowtimesTable({"st1"})
    /\ quota = [bookings |-> MaxBookings, faults |-> 0, fetches |-> MaxFetch]

-----------------------------------------------------------------------------
(* The page: mounting, leaving, reading.                                   *)

\* A client opens /seats/<st>.  The component starts from its useState
\* defaults, the first effect calls fetchShowtimeAndSeats and the second one
\* subscribes the channel.
Mount(c, st) ==
    /\ UNCHANGED <<orphans, showtimes, lastCall>>
    /\ showtimeId[c] = NoShowtime
    /\ hb[c].pc = "idle"
    /\ showtimeId' = [showtimeId EXCEPT ![c] = st]
    /\ seats' = [seats EXCEPT ![c] = <<>>]
    /\ selectedSeats' = [selectedSeats EXCEPT ![c] = <<>>]
    /\ showtime' = [showtime EXCEPT ![c] = Null]
    /\ loading' = [loading EXCEPT ![c] = TRUE]
    /\ booking' = [booking EXCEPT ![c] = FALSE]
    /\ fetches' = [fetches EXCEPT ![c] = {[pc |-> "read", bookedSeats |-> {}]}]
    /\ notif' = [notif EXCEPT ![c] = {}]
    /\ channel' = [channel EXCEPT ![c] = @ \cup {Subscription(st)}]
    /\ toast' = [toast EXCEPT ![c] = ""]
    /\ UNCHANGED <<bookings, booked_seats, user, hb, nextId, quota, outcome, conflicted>>

\* a cleanup that leaves the channel subscribed
LeavePageKeepingChannel(c) ==
    /\ showtimeId' = [showtimeId EXCEPT ![c] = NoShowtime]
    /\ seats' = [seats EXCEPT ![c] = <<>>]
    /\ selectedSeats' = [selectedSeats EXCEPT ![c] = <<>>]
    /\ showtime' = [showtime EXCEPT ![c] = Null]
    /\ loading' = [loading EXCEPT ![c] = TRUE]
    /\ booking' = [booking EXCEPT ![c] = FALSE]
    /\ fetches' = [fetches EXCEPT ![c] = {}]
    /\ notif' = [notif EXCEPT ![c] = {}]
    /\ UNCHANGED channel

\* What leaving the page does to the client: the component state is gone, the
\* effect cleanup removes the channel it subscribed, with the events pending
\* on it, and the fetches still in flight set the state of a component that
\* no longer exists.
LeavePage(c) ==
    /\ showtimeId' = [showtimeId EXCEPT ![c] = NoShowtime]
    /\ seats' = [seats EXCEPT ![c] = <<>>]
    /\ selectedSeats' = [selectedSeats EXCEPT ![c] = <<>>]
    /\ showtime' = [showtime EXCEPT ![c] = Null]
    /\ loading' = [loading EXCEPT ![c] = TRUE]
    /\ booking' = [booking EXCEPT ![c] = FALSE]
    /\ fetches' = [fetches EXCEPT ![c] = {}]
    /\ notif' = [notif EXCEPT ![c] = {}]
    /\ channel' = [channel EXCEPT ![c] = {s \in @ : s.filter # showtimeId[c]}]

\* The Back button (or the browser's), while no submission is in flight.
Unmount(c) ==
    /\ UNCHANGED <<orphans, showtimes, lastCall>>
    /\ showtimeId[c] # NoShowtime
    /\ hb[c].pc = "idle"
    /\ LeavePage(c)
    /\ toast' = [toast EXCEPT ![c] = ""]
    /\ conflicted' = [conflicted EXCEPT ![c] = FALSE]
    /\ UNCHANGED <<bookings, booked_seats, user, hb, nextId, quota, outcome>>

\* a catch that also empties the seat map
FetchFailedClearing(c, f) ==
    /\ quota.faults > 0
    /\ quota' = [quota EXCEPT !.faults = @ - 1]
    /\ toast' = [toast EXCEPT ![c] = "Error loading seats"]
    /\ loading' = [loading EXCEPT ![c] = FALSE]
    /\ fetches' = [fetches EXCEPT ![c] = @ \ {f}]
    /\ seats' = [seats EXCEPT ![c] = <<>>]

\* catch and finally of fetchShowtimeAndSeats
FetchFailed(c, f) ==
    /\ quota.faults > 0
    /\ quota' = [quota EXCEPT !.faults = @ - 1]
    /\ toast' = [toast EXCEPT ![c] = "Error loading seats"]
    /\ loading' = [loading EXCEPT ![c] = FALSE]
    /\ fetches' = [fetches EXCEPT ![c] = @ \ {f}]
    /\ UNCHANGED seats

\* The two reads of fetchShowtimeAndSeats at the store.  The showtime row never
\* changes, so the step is taken when the store answers the read of
\* booked_seats with the rows it holds now: setShowtime has happened and the
\* answer is on its way to the client.  Or the first read fails
\* (showtimeError), or the second one does (bookedError).
FetchRead(c, f) ==
    /\ UNCHANGED <<orphans, showtimes, lastCall, channel>>
    /\ f \in fetches[c]
    /\ f.pc = "read"
    /\ \/ /\ showtime' = [showtime EXCEPT ![c] = showtimes[showtimeId[c]]]
          /\ fetches' = [fetches EXCEPT ![c] =
                (@ \ {f}) \cup {[pc |-> "apply",
                                 bookedSeats |-> BookedSeatLabels(showtimeId[c])]}]
          /\ UNCHANGED <<seats, loading, toast, quota>>
       \/ /\ FetchFailed(c, f)
          /\ UNCHANGED showtime
       \/ /\ FetchFailed(c, f)
          /\ showtime' = [showtime EXCEPT ![c] = showtimes[showtimeId[c]]]
    /\ UNCHANGED <<bookings, booked_seats, user, showtimeId, selectedSeats, booking, hb,
                   notif, nextId, outcome, conflicted>>

\* The answer arrives: the layout is expanded, setSeats, setLoading(false).
FetchApply(c, f) ==
    /\ UNCHANGED <<orphans, showtimes, lastCall, channel>>
    /\ f \in fetches[c]
    /\ f.pc = "apply"
    /\ seats' = [seats EXCEPT ![c] = AllSeats(showtime[c].seat_layout.seats, f.bookedSeats)]
    /\ loading' = [loading EXCEPT ![c] = FALSE]
    /\ fetches' = [fetches EXCEPT ![c] = @ \ {f}]
    /\ conflicted' = [conflicted EXCEPT ![c] = FALSE]
    /\ UNCHANGED <<bookings, booked_seats, user, showtimeId, selectedSeats, showtime,
                   booking, toast, hb, notif, nextId, quota, outcome>>

\* a handler that marks the seats of the payloads as booked and reads nothing
NotifyTrustingDelta(c) ==
    /\ UNCHANGED <<orphans, showtimes, lastCall, channel>>
    /\ Cardinality(fetches[c]) < quota.fetches
    /\ notif[c] # {}
    /\ notif' = [notif EXCEPT ![c] = {}]
    /\ seats' = [seats EXCEPT ![c] =
            [i \in DOMAIN seats[c] |->
                [seats[c][i] EXCEPT !.isBooked =
                    @ \/ seats[c][i].label \in {e.new.seat_label : e \in notif[c]}]]]
    /\ conflicted' = [conflicted EXCEPT ![c] = FALSE]
    /\ UNCHANGED <<bookings, booked_seats, user, showtimeId, selectedSeats, showtime,
                   loading, booking, toast, hb, fetches, nextId, quota, outcome>>

\* The channel delivers the pending change events: the handler, which takes
\* no argument, calls fetchShowtimeAndSeats.  The calls made for events that
\* arrive together read the same rows and are one element of fetches.
Notify(c) ==
    /\ UNCHANGED <<orphans, showtimes, lastCall, channel>>
    /\ Cardinality(fetches[c]) < quota.fetches
    /\ notif[c] # {}
    /\ notif' = [notif EXCEPT ![c] = {}]
    /\ fetches' = [fetches EXCEPT ![c] = @ \cup {[pc |-> "read", bookedSeats |-> {}]}]
    /\ conflicted' = [conflicted EXCEPT ![c] = FALSE]
    /\ UNCHANGED <<bookings, booked_seats, user, showtimeId, seats, selectedSeats,
                   showtime, loading, booking, toast, hb, nextId, quota, outcome>>

\* The feed is best effort: the pending events are lost.
DropNotification(c) ==
    /\ UNCHANGED <<orphans, showtimes, lastCall, channel>>
    /\ notif[c] # {}
    /\ notif' = [notif EXCEPT ![c] = {}]
    /\ UNCHANGED <<bookings, booked_seats, user, showtimeId, seats, selectedSeats,
                   showtime, loading, booking, toast, hb, fetches, nextId, quota,
                   outcome, conflicted>>

\* a click that also holds the seat it selects, with a row of booked_seats
ToggleHoldingSeat(c, i) ==
    /\ Rendered(c)
    /\ i \in DOMAIN seats[c]
    /\ selectedSeats' = [selectedSeats EXCEPT ![c] =
            toggleSeat(@, seats[c][i].label, seats[c][i].isBooked)]
    /\ booked_seats' = booked_seats \cup
            seatReservations(selectedSeats'[c], showtimeId[c], 0)
    /\ conflicted' = [conflicted EXCEPT ![c] = @ /\ selectedSeats'[c] = selectedSeats[c]]
    /\ UNCHANGED <<bookings, user, showtimeId, seats, showtime, loading,
                   booking, toast, hb, fetches, notif, nextId, quota, outcome>>

\* What a click on the button of seat i of the seat map does to the page.
Toggle(c, i) ==
    /\ Rendered(c)
    /\ i \in DOMAIN seats[c]
    /\ selectedSeats' = [selectedSeats EXCEPT ![c] =
            toggleSeat(@, seats[c][i].label, seats[c][i].isBooked)]
    /\ conflicted' = [conflicted EXCEPT ![c] = @ /\ selectedSeats'[c] = selectedSeats[c]]
    /\ UNCHANGED <<bookings, booked_seats, user, showtimeId, seats, showtime, loading,
                   booking, toast, hb, fetches, notif, nextId, quota, outcome>>

\* A click on the button of seat i of the seat map.
ToggleSeat(c, i) ==
    /\ Toggle(c, i)
    /\ UNCHANGED <<orphans, showtimes, lastCall, channel>>

-----------------------------------------------------------------------------
(* handleBooking.                                                          *)

\* handleBooking, called in the render that client c has on screen: it keeps
\* the values of that render (user, showtimeId, showtime, selectedSeats).
\* After the first line the insert into bookings reads nothing that another
\* client writes, so the step runs to the point where the store has executed
\* it and the insert of the seat reservations is on its way; or the insert
\* fails (bookingError).
handleBooking(c) ==
    /\ IF ReturnsEarly(user[c], showtime[c], selectedSeats[c])
       THEN UNCHANGED <<bookings, booking, hb, nextId, quota, outcome>>
       ELSE LET row == [id |-> nextId, user_id |-> user[c], showtime_id |-> showtimeId[c],
                        seats |-> selectedSeats[c],
                        total_price |-> totalPrice(showtime[c], selectedSeats[c]),
                        booking_status |-> "confirmed"]
            IN  /\ booking' = [booking EXCEPT ![c] = TRUE]
                /\ \/ /\ quota.bookings > 0
                      /\ BookingsInsertPolicy(user[c], row)
                      /\ BookingsForeignKeys(row)
                      /\ bookings' = bookings \cup {row}
                      /\ nextId' = nextId + 1
                      /\ outcome' = outcome @@ (nextId :> "pending")
                      /\ hb' = [hb EXCEPT ![c] =
                            [pc |-> "insertSeats", showtimeId |-> showtimeId[c],
                             selectedSeats |-> selectedSeats[c], bookingId |-> nextId,
                             error |-> "", retry |-> conflicted[c]]]
                      /\ quota' = [quota EXCEPT !.bookings = @ - 1]
                   \/ /\ \/ quota.faults > 0
                         \/ ~BookingsInsertPolicy(user[c], row)
                         \/ ~BookingsForeignKeys(row)
                      /\ quota' = [quota EXCEPT !.faults =
                            IF BookingsInsertPolicy(user[c], row) /\ BookingsForeignKeys(row)
                            THEN @ - 1 ELSE @]
                      /\ hb' = [hb EXCEPT ![c] =
                            [pc |-> "catch", showtimeId |-> showtimeId[c],
                             selectedSeats |-> selectedSeats[c], bookingId |-> 0,
                             error |-> "store", retry |-> conflicted[c]]]
                      /\ UNCHANGED <<bookings, nextId, outcome>>
    /\ UNCHANGED <<booked_seats, user, showtimeId, seats, selectedSeats, showtime,
                   loading, toast, fetches, notif, conflicted>>

\* A click on Confirm Booking, which is shown while the selection is not
\* empty and enabled while booking is false.
HandleBooking(c) ==
    /\ UNCHANGED <<orphans, showtimes, lastCall, channel>>
    /\ Rendered(c)
    /\ Len(selectedSeats[c]) > 0
    /\ ~booking[c]
    /\ quota.bookings > 0
    /\ handleBooking(c)

\* an insert that keeps the rows that violate nothing and reports the others
InsertSeatsRowByRow(c) ==
    /\ UNCHANGED <<orphans, showtimes, lastCall, channel>>
    /\ hb[c].pc = "insertSeats"
    /\ LET rows == seatReservations(hb[c].selectedSeats, hb[c].showtimeId, hb[c].bookingId)
           kept == {r \in rows : ~ViolatesUnique(booked_seats, {r})}
       IN  IF ~BookedSeatsInsertPolicy(user[c]) \/ ~BookedSeatsForeignKeys(rows)
           THEN /\ hb' = [hb EXCEPT ![c].pc = "catch", ![c].error = "store"]
                /\ UNCHANGED <<booked_seats, notif, quota>>
           ELSE /\ booked_seats' = booked_seats \cup kept
                /\ notif' = [d \in Clients |->
                        IF d \in Subscribers(hb[c].showtimeId)
                        THEN notif[d] \cup {[eventType |-> "INSERT", new |-> r] : r \in kept}
                        ELSE notif[d]]
                /\ hb' = IF kept = rows THEN [hb EXCEPT ![c].pc = "ok"]
                         ELSE [hb EXCEPT ![c].pc = "catch", ![c].error = "conflict"]
                /\ UNCHANGED quota
    /\ UNCHANGED <<bookings, user, showtimeId, seats, selectedSeats, showtime, loading,
                   booking, toast, fetches, nextId, outcome, conflicted>>

\* an insert of the seats that are selected when the insert is executed
InsertSeatsOfCurrentSelection(c) ==
    /\ UNCHANGED <<orphans, showtimes, lastCall, channel>>
    /\ hb[c].pc = "insertSeats"
    /\ LET rows == seatReservations(selectedSeats[c], hb[c].showtimeId, hb[c].bookingId)
       IN  IF ~BookedSeatsInsertPolicy(user[c]) \/ ~BookedSeatsForeignKeys(rows)
           THEN /\ hb' = [hb EXCEPT ![c].pc = "catch", ![c].error = "store"]
                /\ UNCHANGED <<booked_seats, notif, quota>>
           ELSE IF ViolatesUnique(booked_seats, rows)
           THEN /\ hb' = [hb EXCEPT ![c].pc = "catch", ![c].error = "conflict"]
                /\ UNCHANGED <<booked_seats, notif, quota>>
           ELSE /\ booked_seats' = booked_seats \cup rows
                /\ notif' = [d \in Clients |->
                        IF d \in Subscribers(hb[c].showtimeId)
                        THEN notif[d] \cup {[eventType |-> "INSERT", new |-> r] : r \in rows}
                        ELSE notif[d]]
                /\ hb' = [hb EXCEPT ![c].pc = "ok"]
                /\ UNCHANGED quota
    /\ UNCHANGED <<bookings, user, showtimeId, seats, selectedSeats, showtime, loading,
                   booking, toast, fetches, nextId, outcome, conflicted>>

\* The store executes the one insert of all seat reservations: it is rejected
\* as a whole by the row-level policy, a foreign key or a uniqueness violation
\* (seatsError), else the rows are added
\* and the publication notifies the subscribed channels; or the insert fails
\* for another reason.
InsertSeats(c) ==
    /\ UNCHANGED <<orphans, showtimes, lastCall, channel>>
    /\ hb[c].pc = "insertSeats"
    /\ LET rows == seatReservations(hb[c].selectedSeats, hb[c].showtimeId, hb[c].bookingId)
       IN  IF ~BookedSeatsInsertPolicy(user[c]) \/ ~BookedSeatsForeignKeys(rows)
           THEN /\ hb' = [hb EXCEPT ![c].pc = "catch", ![c].error = "store"]
                /\ UNCHANGED <<booked_seats, notif, quota>>
           ELSE IF ViolatesUnique(booked_seats, rows)
           THEN /\ hb' = [hb EXCEPT ![c].pc = "catch", ![c].error = "conflict"]
                /\ UNCHANGED <<booked_seats, notif, quota>>
           ELSE \/ /\ booked_seats' = booked_seats \cup rows
                   /\ notif' = [d \in Clients |->
                        IF d \in Subscribers(hb[c].showtimeId)
                        THEN notif[d] \cup {[eventType |-> "INSERT", new |-> r] : r \in rows}
                        ELSE notif[d]]
                   /\ hb' = [hb EXCEPT ![c].pc = "ok"]
                   /\ UNCHANGED quota
                \/ /\ quota.faults > 0
                   /\ quota' = [quota EXCEPT !.faults = @ - 1]
                   /\ hb' = [hb EXCEPT ![c].pc = "catch", ![c].error = "store"]
                   /\ UNCHANGED <<booked_seats, notif>>
    /\ UNCHANGED <<bookings, user, showtimeId, seats, selectedSeats, showtime, loading,
                   booking, toast, fetches, nextId, outcome, conflicted>>

\* Both inserts returned without error: the toast, navigate('/bookings').
BookingConfirmed(c) ==
    /\ UNCHANGED <<orphans, showtimes, lastCall>>
    /\ hb[c].pc = "ok"
    /\ toast' = [toast EXCEPT ![c] = "Booking confirmed!"]
    /\ LeavePage(c)
    /\ outcome' = [outcome EXCEPT ![hb[c].bookingId] = "success"]
    /\ conflicted' = [conflicted EXCEPT ![c] = FALSE]
    /\ hb' = [hb EXCEPT ![c] = Idle]
    /\ UNCHANGED <<bookings, booked_seats, user, nextId, quota>>

\* a catch that also empties the selection
BookingFailedAndCleared(c) ==
    /\ UNCHANGED <<orphans, showtimes, lastCall, channel>>
    /\ hb[c].pc = "catch"
    /\ toast' = [toast EXCEPT ![c] = "Booking failed"]
    /\ booking' = [booking EXCEPT ![c] = FALSE]
    /\ selectedSeats' = [selectedSeats EXCEPT ![c] = <<>>]
    /\ outcome' = IF hb[c].bookingId = 0 THEN outcome
                  ELSE [outcome EXCEPT ![hb[c].bookingId] = hb[c].error]
    /\ conflicted' = [conflicted EXCEPT ![c] = FALSE]
    /\ hb' = [hb EXCEPT ![c] = Idle]
    /\ UNCHANGED <<bookings, booked_seats, user, showtimeId, seats, showtime, loading,
                   fetches, notif, nextId, quota>>

\* catch and finally of handleBooking: the toast, setBooking(false).
BookingFailed(c) ==
    /\ UNCHANGED <<orphans, showtimes, lastCall, channel>>
    /\ hb[c].pc = "catch"
    /\ toast' = [toast EXCEPT ![c] = "Booking failed"]
    /\ booking' = [booking EXCEPT ![c] = FALSE]
    /\ outcome' = IF hb[c].bookingId = 0 THEN outcome
                  ELSE [outcome EXCEPT ![hb[c].bookingId] = hb[c].error]
    /\ conflicted' = [conflicted EXCEPT ![c] =
            /\ hb[c].error = "conflict"
            /\ hb[c].selectedSeats = selectedSeats[c]
            /\ fetches[c] = {}]
    /\ hb' = [hb EXCEPT ![c] = Idle]
    /\ UNCHANGED <<bookings, booked_seats, user, showtimeId, seats, selectedSeats,
                   showtime, loading, fetches, notif, nextId, quota>>

-----------------------------------------------------------------------------
Next ==
    \E c \in Clients :
        \/ \E st \in DOMAIN showtimes : Mount(c, st)
        \/ Unmount(c)
        \/ \E f \in fetches[c] : FetchRead(c, f)
        \/ \E f \in fetches[c] : FetchApply(c, f)
        \/ Notify(c)
        \/ DropNotification(c)
        \/ \E i \in DOMAIN seats[c] : ToggleSeat(c, i)
        \/ HandleBooking(c)
        \/ InsertSeats(c)
        \/ BookingConfirmed(c)
        \/ BookingFailed(c)

Spec == Init /\ [][Next]_vars

\* Store requests may also fail for a reason other than a conflict.
InitFaults ==
    /\ NobodyThere
    /\ Sold("st1", <<>>)
    /\ showtimes = ShowtimesTable({"st1"})
    /\ quota = [bookings |-> MaxBookings, faults |-> MaxFaults, fetches |-> MaxFetch]

SpecFaults == InitFaults /\ [][Next]_vars

\* One more booking row may be inserted, so that a submission that lost a
\* seat to another one can be repeated.
InitRetry ==
    /\ NobodyThere
    /\ Sold("st1", <<>>)
    /\ showtimes = ShowtimesTable({"st1"})
    /\ quota = [bookings |-> MaxBookings + 1, faults |-> 0, fetches |-> MaxFetch]

SpecRetry == InitRetry /\ [][Next]_vars

\* The feed loses no event, and a client may have one more call of
\* fetchShowtimeAndSeats in flight: the one of the mount effect, or of an
\* earlier event, and the one of the next event.
InitFeed ==
    /\ NobodyThere
    /\ Sold("st1", <<>>)
    /\ showtimes = ShowtimesTable({"st1"})
    /\ quota = [bookings |-> MaxBookings, faults |-> 0, fetches |-> MaxFetch + 1]

NextFeed ==
    \E c \in Clients :
        \/ \E st \in DOMAIN showtimes : Mount(c, st)
        \/ Unmount(c)
        \/ \E f \in fetches[c] : FetchRead(c, f)
        \/ \E f \in fetches[c] : FetchApply(c, f)
        \/ Notify(c)
        \/ \E i \in DOMAIN seats[c] : ToggleSeat(c, i)
        \/ HandleBooking(c)
        \/ InsertSeats(c)
        \/ BookingConfirmed(c)
        \/ BookingFailed(c)

SpecFeed == InitFeed /\ [][NextFeed]_vars

\* The clients stay on the page until a booking of theirs is confirmed: they
\* select, submit, and go on clicking on seats and receiving change events
\* while the submission is in flight.
NextStay ==
    \E c \in Clients :
        \/ \E st \in DOMAIN showtimes : Mount(c, st)
        \/ \E f \in fetches[c] : FetchRead(c, f)
        \/ \E f \in fetches[c] : FetchApply(c, f)
        \/ Notify(c)
        \/ \E i \in DOMAIN seats[c] : ToggleSeat(c, i)
        \/ HandleBooking(c)
        \/ InsertSeats(c)
        \/ BookingConfirmed(c)
        \/ BookingFailed(c)

SpecStay == Init /\ [][NextStay]_vars

\* Two showtimes in the same hall are on sale.
InitShowtimes ==
    /\ NobodyThere
    /\ Sold("st1", <<>>)
    /\ showtimes = ShowtimesTable({"st1", "st2"})
    /\ quota = [bookings |-> MaxBookings, faults |-> 0, fetches |-> MaxFetch]

SpecShowtimes == InitShowtimes /\ [][Next]_vars

-----------------------------------------------------------------------------
(* Transport interruptions.  The page passes no status callback to         *)
(* subscribe() and has no other code for the state of the connection.       *)

\* The connection of client c to the realtime server is interrupted: its
\* channels are closed and the events on their way to it are lost.
Disconnect(c) ==
    /\ UNCHANGED <<orphans, showtimes, lastCall>>
    /\ \E s \in channel[c] : s.state = "joined"
    /\ channel' = [channel EXCEPT ![c] = {[s EXCEPT !.state = "closed"] : s \in @}]
    /\ notif' = [notif EXCEPT ![c] = {}]
    /\ UNCHANGED <<bookings, booked_seats, user, showtimeId, seats, selectedSeats,
                   showtime, loading, booking, toast, hb, fetches, nextId, quota,
                   outcome, conflicted>>

\* The connection is back and the realtime client joins the channels again;
\* no code of the page runs.
Reconnect(c) ==
    /\ UNCHANGED <<orphans, showtimes, lastCall>>
    /\ \E s \in channel[c] : s.state = "closed"
    /\ channel' = [channel EXCEPT ![c] = {[s EXCEPT !.state = "joined"] : s \in @}]
    /\ UNCHANGED <<bookings, booked_seats, user, showtimeId, seats, selectedSeats,
                   showtime, loading, booking, toast, hb, fetches, notif, nextId, quota,
                   outcome, conflicted>>

\* No event is lost but in an interruption, and a client has one call of
\* fetchShowtimeAndSeats in flight at a time.
InitReconnect ==
    /\ NobodyThere
    /\ Sold("st1", <<>>)
    /\ showtimes = ShowtimesTable({"st1"})
    /\ quota = [bookings |-> MaxBookings, faults |-> 0, fetches |-> MaxFetch]

NextReconnect ==
    \E c \in Clients :
        \/ \E st \in DOMAIN showtimes : Mount(c, st)
        \/ Unmount(c)
        \/ \E f \in fetches[c] : FetchRead(c, f)
        \/ \E f \in fetches[c] : FetchApply(c, f)
        \/ Notify(c)
        \/ Disconnect(c)
        \/ Reconnect(c)
        \/ \E i \in DOMAIN seats[c] : ToggleSeat(c, i)
        \/ HandleBooking(c)
        \/ InsertSeats(c)
        \/ BookingConfirmed(c)
        \/ BookingFailed(c)

SpecReconnect == InitReconnect /\ [][NextReconnect]_vars

-----------------------------------------------------------------------------
(* Leaving the page while a submission is in flight.  The Back button is   *)
(* enabled while booking is true, and nothing cancels the handleBooking    *)
(* call of a component that is unmounted: its requests are on their way    *)
(* and the rest of the function runs when they return.                     *)

\* The Back button, while the handleBooking call of the page is running.
LeaveWhileBooking(c) ==
    /\ UNCHANGED <<showtimes, lastCall>>
    /\ showtimeId[c] # NoShowtime
    /\ hb[c].pc # "idle"
    /\ LeavePage(c)
    /\ orphans' = [orphans EXCEPT ![c] = @ \cup {hb[c]}]
    /\ hb' = [hb EXCEPT ![c] = Idle]
    /\ toast' = [toast EXCEPT ![c] = ""]
    /\ conflicted' = [conflicted EXCEPT ![c] = FALSE]
    /\ UNCHANGED <<bookings, booked_seats, user, nextId, quota, outcome>>

\* The store executes the insert of the seat reservations of a call whose
\* page was left, as it executes any other.
OrphanInsertSeats(c, o) ==
    /\ UNCHANGED <<showtimes, lastCall, channel>>
    /\ o \in orphans[c]
    /\ o.pc = "insertSeats"
    /\ LET rows == seatReservations(o.selectedSeats, o.showtimeId, o.bookingId)
           Caught(e) == orphans' = [orphans EXCEPT ![c] =
                            (@ \ {o}) \cup {[o EXCEPT !.pc = "catch", !.error = e]}]
       IN  IF ~BookedSeatsInsertPolicy(user[c]) \/ ~BookedSeatsForeignKeys(rows)
           THEN /\ Caught("store")
                /\ UNCHANGED <<booked_seats, notif, quota>>
           ELSE IF ViolatesUnique(booked_seats, rows)
           THEN /\ Caught("conflict")
                /\ UNCHANGED <<booked_seats, notif, quota>>
           ELSE \/ /\ booked_seats' = booked_seats \cup rows
                   /\ notif' = [d \in Clients |->
                        IF d \in Subscribers(o.showtimeId)
                        THEN notif[d] \cup {[eventType |-> "INSERT", new |-> r] : r \in rows}
                        ELSE notif[d]]
                   /\ orphans' = [orphans EXCEPT ![c] =
                            (@ \ {o}) \cup {[o EXCEPT !.pc = "ok"]}]
                   /\ UNCHANGED quota
                \/ /\ quota.faults > 0
                   /\ quota' = [quota EXCEPT !.faults = @ - 1]
                   /\ Caught("store")
                   /\ UNCHANGED <<booked_seats, notif>>
    /\ UNCHANGED <<bookings, user, showtimeId, seats, selectedSeats, showtime, loading,
                   booking, toast, hb, fetches, nextId, outcome, conflicted>>

\* The rest of a call whose page was left.  After a failure: the toast, and
\* setBooking(false) on the unmounted component, which does nothing.  After
\* a success: the toast and navigate('/bookings'), which leaves the page the
\* client has open now, with the call that may be running there.
OrphanEnds(c, o) ==
    /\ UNCHANGED <<showtimes, lastCall>>
    /\ o \in orphans[c]
    /\ o.pc \in {"ok", "catch"}
    /\ toast' = [toast EXCEPT ![c] =
            IF o.pc = "ok" THEN "Booking confirmed!" ELSE "Booking failed"]
    /\ outcome' = IF o.bookingId = 0 THEN outcome
                  ELSE [outcome EXCEPT ![o.bookingId] =
                            IF o.pc = "ok" THEN "success" ELSE o.error]
    /\ IF o.pc = "ok" /\ showtimeId[c] # NoShowtime
       THEN /\ LeavePage(c)
            /\ orphans' = [orphans EXCEPT ![c] =
                    (@ \ {o}) \cup (IF hb[c].pc # "idle" THEN {hb[c]} ELSE {})]
            /\ hb' = [hb EXCEPT ![c] = Idle]
            /\ conflicted' = [conflicted EXCEPT ![c] = FALSE]
       ELSE /\ orphans' = [orphans EXCEPT ![c] = @ \ {o}]
            /\ UNCHANGED <<showtimeId, seats, selectedSeats, showtime, loading, booking,
                           fetches, notif, channel, hb, conflicted>>
    /\ UNCHANGED <<bookings, booked_seats, user, nextId, quota>>

NextLeave ==
    \E c \in Clients :
        \/ \E st \in DOMAIN showtimes : Mount(c, st)
        \/ Unmount(c)
        \/ LeaveWhileBooking(c)
        \/ \E f \in fetches[c] : FetchRead(c, f)
        \/ \E f \in fetches[c] : FetchApply(c, f)
        \/ Notify(c)
        \/ \E i \in DOMAIN seats[c] : ToggleSeat(c, i)
        \/ HandleBooking(c)
        \/ InsertSeats(c)
        \/ BookingConfirmed(c)
        \/ BookingFailed(c)
        \/ \E o \in orphans[c] : OrphanInsertSeats(c, o)
        \/ \E o \in orphans[c] : OrphanEnds(c, o)

SpecLeave == Init /\ [][NextLeave]_vars

-----------------------------------------------------------------------------
(* toggleSeat as a function of the state it is called in.  Every client has *)
(* the seat map of the showtime open, some seats are booked by an earlier   *)
(* booking, each seat map shows all or some of them (it may be stale) and   *)
(* each selection is any list of seats; the steps are the clicks on seats,  *)
(* each recorded in lastCall together with the selection it found.          *)

\* the lists without repetition of elements of S
Arrangements(S) ==
    {s \in UNION {[1..n -> S] : n \in 0..Cardinality(S)} :
        \A i, j \in DOMAIN s : i # j => s[i] # s[j]}

\* the seat labels of the hall of showtime st
LabelsOf(st) == {x.label : x \in Range(AllSeats(ShowtimeRow(st).seat_layout.seats, {}))}

InitToggle ==
    /\ showtimes = ShowtimesTable({"st1"})
    /\ quota = [bookings |-> 0, faults |-> 0, fetches |-> MaxFetch]
    /\ \E earlier \in Arrangements(LabelsOf("st1")) :
        /\ Sold("st1", earlier)
        /\ seats \in [Clients -> {AllSeats(HallLayout.seats, shown) :
                                    shown \in SUBSET Range(earlier)}]
    /\ selectedSeats \in [Clients -> Arrangements(LabelsOf("st1"))]
    /\ user = [c \in Clients |-> UserOf(c)]
    /\ showtimeId = [c \in Clients |-> "st1"]
    /\ showtime = [c \in Clients |-> ShowtimeRow("st1")]
    /\ loading = [c \in Clients |-> FALSE]
    /\ booking = [c \in Clients |-> FALSE]
    /\ toast = [c \in Clients |-> ""]
    /\ hb = [c \in Clients |-> Idle]
    /\ fetches = [c \in Clients |-> {}]
    /\ notif = [c \in Clients |-> {}]
    /\ conflicted = [c \in Clients |-> FALSE]
    /\ lastCall = NoCall
    /\ channel = [c \in Clients |-> {Subscription("st1")}]
    /\ orphans = [c \in Clients |-> {}]

\* A click on the button of seat i, recorded.
ClickSeat(c, i) ==
    /\ Toggle(c, i)
    /\ lastCall' = [op |-> "toggleSeat", client |-> c, seatLabel |-> seats[c][i].label,
                    isBooked |-> seats[c][i].isBooked, prev |-> selectedSeats[c]]
    /\ UNCHANGED <<orphans, showtimes, channel>>

NextToggle == \E c \in Clients : \E i \in DOMAIN seats[c] : ClickSeat(c, i)

SpecToggle == InitToggle /\ [][NextToggle]_vars

\* The clients only look and select: they click on seats, leave the page and
\* come back, and nobody submits.
NextBrowse ==
    \E c \in Clients :
        \/ \E i \in DOMAIN seats[c] : ClickSeat(c, i)
        \/ Unmount(c)
        \/ \E st \in DOMAIN showtimes : Mount(c, st)
        \/ \E f \in fetches[c] : FetchRead(c, f)
        \/ \E f \in fetches[c] : FetchApply(c, f)

SpecBrowse == InitToggle /\ [][NextBrowse]_vars

-----------------------------------------------------------------------------
(* handleBooking as a function of the render it is called in.  Every client *)
(* has the page of the showtime open, signed in or not, with the showtime   *)
(* row read or not and with any selection; some seats are booked by an      *)
(* earlier booking.  The steps are the calls of handleBooking, each         *)
(* recorded in lastCall with the values it found, and the steps of the      *)
(* calls in flight.                                                         *)

InitSubmit ==
    /\ showtimes = ShowtimesTable({"st1"})
    /\ quota = [bookings |-> MaxBookings, faults |-> MaxFaults, fetches |-> MaxFetch]
    /\ \E earlier \in Arrangements(LabelsOf("st1")) :
        /\ Sold("st1", earlier)
        /\ seats = [c \in Clients |-> AllSeats(HallLayout.seats, Range(earlier))]
    /\ selectedSeats \in [Clients -> Arrangements(LabelsOf("st1"))]
    /\ user \in {u \in [Clients -> Users \cup {NoUser}] :
                    \A c \in Clients : u[c] \in {UserOf(c), NoUser}}
    /\ showtimeId = [c \in Clients |-> "st1"]
    /\ showtime \in [Clients -> {ShowtimeRow("st1"), Null}]
    /\ loading = [c \in Clients |-> FALSE]
    /\ booking = [c \in Clients |-> FALSE]
    /\ toast = [c \in Clients |-> ""]
    /\ hb = [c \in Clients |-> Idle]
    /\ fetches = [c \in Clients |-> {}]
    /\ notif = [c \in Clients |-> {}]
    /\ conflicted = [c \in Clients |-> FALSE]
    /\ lastCall = NoCall
    /\ channel = [c \in Clients |-> {Subscription("st1")}]
    /\ orphans = [c \in Clients |-> {}]

\* A call of handleBooking while no other one of the client is running,
\* recorded.
Submit(c) ==
    /\ ~booking[c]
    /\ handleBooking(c)
    /\ lastCall' = [op |-> "handleBooking", client |-> c, user |-> user[c],
                    showtime |-> showtime[c], selectedSeats |-> selectedSeats[c]]
    /\ UNCHANGED <<orphans, showtimes, channel>>

NextSubmit ==
    \E c \in Clients :
        \/ Submit(c)
        \/ InsertSeats(c)
        \/ BookingConfirmed(c)
        \/ BookingFailed(c)

SpecSubmit == InitSubmit /\ [][NextSubmit]_vars

\* The submissions, and the refreshes that their change events start at the
\* other clients; a read of a refresh may fail.
NextRefresh ==
    \E c \in Clients :
        \/ Submit(c)
        \/ InsertSeats(c)
        \/ BookingConfirmed(c)
        \/ BookingFailed(c)
        \/ Notify(c)
        \/ \E f \in fetches[c] : FetchRead(c, f)
        \/ \E f \in fetches[c] : FetchApply(c, f)

SpecRefresh == InitSubmit /\ [][NextRefresh]_vars

-----------------------------------------------------------------------------
(* The layout expansion as a function of the hall layout.  seat_layout is   *)
(* a JSONB column without a constraint: the administrator may have stored   *)
(* any list of row descriptors.  The showtime on sale is in a hall with any *)
(* layout of at most MaxRows rows; the steps are the clients opening the    *)
(* page, the reads and the expansion, and the clients leaving.              *)

\* seat_layout.seats[i].row
RowLabels == {"A", "A1", "B"}

\* seat_layout.seats[i].cols
ColCounts == {-1, 0, 1, 2, 11}

\* rowData.type of a descriptor that has no type
NoType == "undefined"

\* seat_layout.seats[i].type
SeatTypes == {"standard", NoType}

RowDescriptors == [row : RowLabels, cols : ColCounts, type : SeatTypes]

Layouts == UNION {[1..n -> RowDescriptors] : n \in 0..MaxRows}

InitLayout ==
    /\ NobodyThere
    /\ Sold("st1", <<>>)
    /\ \E rows \in Layouts :
        showtimes = [st \in {"st1"} |->
                        [ShowtimeRow(st) EXCEPT !.seat_layout = [seats |-> rows]]]
    /\ quota = [bookings |-> 0, faults |-> 0, fetches |-> MaxFetch]

NextLayout ==
    \E c \in Clients :
        \/ \E st \in DOMAIN showtimes : Mount(c, st)
        \/ Unmount(c)
        \/ \E f \in fetches[c] : FetchRead(c, f)
        \/ \E f \in fetches[c] : FetchApply(c, f)

SpecLayout == InitLayout /\ [][NextLayout]_vars

-----------------------------------------------------------------------------
(* Deletions.  The page deletes nothing; rows of bookings and showtimes    *)
(* are deleted at the store, by an administrator (showtimes) or by the     *)
(* owner of the database, and the foreign keys are declared ON DELETE      *)
(* CASCADE.  Two showtimes are on sale and each has its page open at one   *)
(* client, with any selection; some seats of the first showtime are booked *)
(* by an earlier booking; the steps are the submissions and the deletions, *)
(* each deletion recorded in lastCall.                                     *)

\* the rows of booked_seats that reference booking id
RecordsOf(id) == {r \in booked_seats : r.booking_id = id}

\* the events of the deletion of the rows gone, on the channels subscribed
\* for their showtime
DeleteEvents(gone) ==
    [d \in Clients |->
        notif[d] \cup {[eventType |-> "DELETE", old |-> r] :
                            r \in {x \in gone : d \in Subscribers(x.showtime_id)}}]

\* a deletion that leaves the seat reservations of the booking in place
DeleteBookingNoCascade(b) ==
    /\ b \in bookings
    /\ bookings' = bookings \ {b}
    /\ lastCall' = [op |-> "deleteBooking", row |-> b]
    /\ UNCHANGED <<showtimes, booked_seats, user, showtimeId, seats, selectedSeats,
                   showtime, loading, booking, toast, hb, fetches, notif, nextId,
                   quota, outcome, conflicted, channel, orphans>>

\* DELETE FROM bookings WHERE id = b.id: the rows of booked_seats that
\* reference the booking go with it (booking_id ... ON DELETE CASCADE).
DeleteBooking(b) ==
    /\ b \in bookings
    /\ bookings' = bookings \ {b}
    /\ booked_seats' = booked_seats \ RecordsOf(b.id)
    /\ notif' = DeleteEvents(RecordsOf(b.id))
    /\ lastCall' = [op |-> "deleteBooking", row |-> b]
    /\ UNCHANGED <<showtimes, user, showtimeId, seats, selectedSeats, showtime, loading,
                   booking, toast, hb, fetches, nextId, quota, outcome, conflicted,
                   channel, orphans>>

\* DELETE FROM showtimes WHERE id = st: the bookings and the seat
\* reservations of the showtime go with it (showtime_id ... ON DELETE
\* CASCADE, twice), and with the bookings the seat reservations that
\* reference them.
DeleteShowtime(st) ==
    /\ st \in DOMAIN showtimes
    /\ LET goneBookings == {b \in bookings : b.showtime_id = st}
           goneSeats == {r \in booked_seats :
                            \/ r.showtime_id = st
                            \/ \E b \in goneBookings : b.id = r.booking_id}
       IN  /\ showtimes' = [x \in DOMAIN showtimes \ {st} |-> showtimes[x]]
           /\ bookings' = bookings \ goneBookings
           /\ booked_seats' = booked_seats \ goneSeats
           /\ notif' = DeleteEvents(goneSeats)
    /\ lastCall' = [op |-> "deleteShowtime", row |-> showtimes[st]]
    /\ UNCHANGED <<user, showtimeId, seats, selectedSeats, showtime, loading, booking,
                   toast, hb, fetches, nextId, quota, outcome, conflicted, channel,
                   orphans>>

InitCascade ==
    /\ showtimes = ShowtimesTable({"st1", "st2"})
    /\ quota = [bookings |-> MaxBookings, faults |-> 0, fetches |-> MaxFetch]
    /\ showtimeId = [c \in Clients |-> IF c = "c1" THEN "st1" ELSE "st2"]
    /\ \E earlier \in Arrangements(LabelsOf("st1")) :
        /\ Sold("st1", earlier)
        /\ seats = [c \in Clients |->
                AllSeats(HallLayout.seats,
                         IF showtimeId[c] = "st1" THEN Range(earlier) ELSE {})]
    /\ selectedSeats \in [Clients -> Arrangements(LabelsOf("st1"))]
    /\ user = [c \in Clients |-> UserOf(c)]
    /\ showtime = [c \in Clients |-> ShowtimeRow(showtimeId[c])]
    /\ loading = [c \in Clients |-> FALSE]
    /\ booking = [c \in Clients |-> FALSE]
    /\ toast = [c \in Clients |-> ""]
    /\ hb = [c \in Clients |-> Idle]
    /\ fetches = [c \in Clients |-> {}]
    /\ notif = [c \in Clients |-> {}]
    /\ conflicted = [c \in Clients |-> FALSE]
    /\ lastCall = NoCall
    /\ channel = [c \in Clients |-> {Subscription(showtimeId[c])}]
    /\ orphans = [c \in Clients |-> {}]

NextCascade ==
    \/ \E c \in Clients :
        \/ HandleBooking(c)
        \/ InsertSeats(c)
        \/ BookingConfirmed(c)
        \/ BookingFailed(c)
    \/ \E b \in bookings : DeleteBooking(b)
    \/ \E st \in DOMAIN showtimes : DeleteShowtime(st)

SpecCascade == InitCascade /\ [][NextCascade]_vars

-----------------------------------------------------------------------------
(* Properties.                                                             *)

\* the rows of bookings with this id
BookingsWithId(id) == {b \in bookings : b.id = id}

\* C1: there are never two rows of booked_seats with the same
\* (showtime_id, seat_label), whatever the clients submit and in whatever order.
NoDuplicateReservation ==
    \A r1, r2 \in booked_seats :
        (r1.showtime_id = r2.showtime_id /\ r1.seat_label = r2.seat_label) => r1 = r2

\* C1 witness: a submission has been rejected on the constraint while the seat
\* it wanted is held by the booking of another client.
ConflictRejected ==
    \E c \in Clients :
        /\ hb[c].pc = "catch"
        /\ hb[c].error = "conflict"
        /\ \E r \in booked_seats :
            Includes(hb[c].selectedSeats, r.seat_label) /\ r.booking_id # hb[c].bookingId

\* C2: a submission that fails because a seat of it is already reserved leaves
\* neither a bookings row nor a booked_seats row behind.
FailedSubmissionLeavesNothing ==
    \A c \in Clients :
        (hb[c].pc = "catch" /\ hb[c].error = "conflict") =>
            (BookingsWithId(hb[c].bookingId) = {} /\ RecordsOf(hb[c].bookingId) = {})

\* C3: in every state, also between the two inserts of a submission and after
\* a failed one, the seats of each booking are exactly the seats of the
\* booked_seats rows that reference it.
BookingSeatsMatchRecords ==
    \A b \in bookings : Range(b.seats) = {r.seat_label : r \in RecordsOf(b.id)}

\* C4: of the submissions for one showtime that contain the same seat at most
\* one is reported as confirmed, and each one that failed on the conflict has
\* created no row.
ContestedSeatOneWinner ==
    /\ \A b1, b2 \in bookings :
        (/\ b1.id # b2.id
         /\ b1.showtime_id = b2.showtime_id
         /\ Range(b1.seats) \cap Range(b2.seats) # {})
        => ~(outcome[b1.id] = "success" /\ outcome[b2.id] = "success")
    /\ \A id \in DOMAIN outcome :
        outcome[id] = "conflict" => (BookingsWithId(id) = {} /\ RecordsOf(id) = {})

\* C5: no two confirmed bookings of one showtime share a seat.
NoSeatInTwoConfirmedBookings ==
    \A b1, b2 \in bookings :
        (/\ b1.id # b2.id
         /\ b1.booking_status = "confirmed"
         /\ b2.booking_status = "confirmed"
         /\ b1.showtime_id = b2.showtime_id)
        => Range(b1.seats) \cap Range(b2.seats) = {}

\* the submission that was given booking id `id` for the seats `requested` of
\* showtime st has exactly one booking and one record per requested seat
CreatedExactly(id, st, requested) ==
    /\ Cardinality(BookingsWithId(id)) = 1
    /\ \A b \in BookingsWithId(id) : b.seats = requested /\ b.showtime_id = st
    /\ Cardinality(RecordsOf(id)) = Len(requested)
    /\ {r.seat_label : r \in RecordsOf(id)} = Range(requested)
    /\ \A r \in RecordsOf(id) : r.showtime_id = st

\* C6: a submission that succeeded has created exactly one booking and exactly
\* one record per requested seat, each referencing that booking; the seats of
\* the booking and of its records are the same.
SuccessCreatesBookingAndRecords ==
    /\ \A c \in Clients :
        hb[c].pc = "ok" => CreatedExactly(hb[c].bookingId, hb[c].showtimeId,
                                          hb[c].selectedSeats)
    /\ \A id \in DOMAIN outcome :
        outcome[id] = "success" =>
            \E b \in bookings : b.id = id /\ CreatedExactly(id, b.showtime_id, b.seats)

\* C6 witness: a submission of two seats has succeeded.
TwoSeatsBooked ==
    \E c \in Clients : hb[c].pc = "ok" /\ Len(hb[c].selectedSeats) = 2

\* C7: the total_price of every booking is the number of its seats times the
\* ticket price of its showtime.
TotalPriceIsSeatsTimesPrice ==
    \A b \in bookings : b.total_price = Len(b.seats) * showtimes[b.showtime_id].ticket_price

\* C7 witness: a booking of two seats is in the store.
TwoSeatBookingStored == \E b \in bookings : Len(b.seats) = 2

\* C8: a selection that failed on a conflict and is submitted again, with no
\* refresh in between, fails again and adds no row to the store.
RetryAddsNothing ==
    \A c \in Clients :
        hb[c].retry =>
            /\ hb[c].pc # "ok"
            /\ BookingsWithId(hb[c].bookingId) = {}
            /\ RecordsOf(hb[c].bookingId) = {}

\* C9: every seat of a seat map on screen is presented in exactly one of the
\* states available, selected, booked, and a seat that the map has as booked
\* is presented as booked only.
OneStatePerSeat ==
    \A c \in Clients :
        Rendered(c) =>
            \A i \in DOMAIN seats[c] :
                /\ Cardinality(SeatClasses(seats[c][i], selectedSeats[c])) = 1
                /\ seats[c][i].isBooked =>
                        SeatClasses(seats[c][i], selectedSeats[c]) = {"booked"}

\* C10: toggleSeat on a seat that the seat map has as booked leaves the
\* selection as it found it.
ToggleBookedIsNoOp ==
    (lastCall.op = "toggleSeat" /\ lastCall.isBooked) =>
        selectedSeats[lastCall.client] = lastCall.prev

\* C10 witness: a booked seat that is in a selection of two seats was clicked.
BookedSeatClicked ==
    /\ lastCall.op = "toggleSeat"
    /\ lastCall.isBooked
    /\ Len(lastCall.prev) = 2
    /\ Includes(lastCall.prev, lastCall.seatLabel)

-----------------------------------------------------------------------------
\* the seats that the seat map of client c has as booked
Displayed(c) == {x.label : x \in {y \in Range(seats[c]) : y.isBooked}}

\* the seats of showtime st that have a record in the store
Reserved(st) == {r.seat_label : r \in {x \in booked_seats : x.showtime_id = st}}

\* C11: what a fetchShowtimeAndSeats call reads as booked is exactly the set
\* of seats with a record for the showtime when the store answers, and the
\* seats it marks as booked when it sets the seat map are exactly those.
FetchMarksExactlyReserved ==
    [][\A c \in Clients :
        /\ \A f \in fetches'[c] \ fetches[c] :
                f.pc = "apply" => f.bookedSeats = Reserved(showtimeId[c])
        /\ \A f \in fetches[c] \ fetches'[c] :
                (f.pc = "apply" /\ showtimeId'[c] = showtimeId[c]) =>
                    Displayed(c)' = f.bookedSeats]_vars

\* C11 witness: a seat map set by a completed fetch has one seat as booked and
\* the other as free, as the store has them.
SeatMapShowsReservedSeat ==
    \E c \in Clients :
        /\ Rendered(c)
        /\ fetches[c] = {}
        /\ Displayed(c) = Reserved(showtimeId[c])
        /\ Displayed(c) # {}
        /\ \E i \in DOMAIN seats[c] : ~seats[c][i].isBooked

-----------------------------------------------------------------------------
RECURSIVE SumCols(_)
\* the sum of the seat counts of the row descriptors
SumCols(rows) == IF rows = <<>> THEN 0 ELSE Head(rows).cols + SumCols(Tail(rows))

\* every row descriptor has a positive seat count and a type tag
WellFormed(rows) == \A i \in DOMAIN rows : rows[i].cols > 0 /\ rows[i].type # NoType

\* no two row descriptors have the same row label
DistinctRows(rows) == \A i, j \in DOMAIN rows : i # j => rows[i].row # rows[j].row

\* C12: the seat map expanded from a hall layout (well formed, its row labels
\* distinct) has sum(cols) seats and no two of them have the same label.
ExpansionCountAndUniqueLabels ==
    \A c \in Clients :
        (/\ Rendered(c)
         /\ WellFormed(showtime[c].seat_layout.seats)
         /\ DistinctRows(showtime[c].seat_layout.seats))
        => /\ Len(seats[c]) = SumCols(showtime[c].seat_layout.seats)
           /\ \A i, j \in DOMAIN seats[c] : i # j => seats[c][i].label # seats[c][j].label

\* C13: for a layout with a row descriptor that has a seat count of zero or
\* less, or no type tag, the fetch ends in its error path and sets no seat
\* list.
MalformedLayoutFails ==
    \A c \in Clients :
        (Rendered(c) /\ ~WellFormed(showtime[c].seat_layout.seats))
        => (toast[c] = "Error loading seats" /\ seats[c] = <<>>)

-----------------------------------------------------------------------------
\* this step is a call of handleBooking that differs from the one before
Called == lastCall' # lastCall /\ lastCall'.op = "handleBooking"

\* C14: a call of handleBooking with an empty selection sends no request: the
\* tables bookings and booked_seats and the state of the call stay as they are.
EmptySelectionNeverReachesStore ==
    [][(Called /\ lastCall'.selectedSeats = <<>>)
        => (bookings' = bookings /\ booked_seats' = booked_seats /\ hb' = hb)]_vars

\* C14 witness: a signed-in client with the showtime loaded has called
\* handleBooking with an empty selection.
EmptySelectionSubmitted ==
    /\ lastCall.op = "handleBooking"
    /\ lastCall.selectedSeats = <<>>
    /\ lastCall.user # NoUser
    /\ lastCall.showtime # Null

\* C15: a call of handleBooking without a user sends no request and leaves
\* the store as it is; every bookings row is inserted by a call of
\* handleBooking and has the user of that call, and every booked_seats row
\* references a booking that has a user.
NoBookingWithoutUser ==
    [][/\ (Called /\ lastCall'.user = NoUser)
            => (bookings' = bookings /\ booked_seats' = booked_seats /\ hb' = hb)
       /\ \A b \in bookings' \ bookings :
            /\ lastCall'.op = "handleBooking"
            /\ b.user_id = lastCall'.user
            /\ b.user_id # NoUser
       /\ \A r \in booked_seats' \ booked_seats :
            \E b \in bookings : b.id = r.booking_id /\ b.user_id # NoUser]_vars

\* C15 witness: a client that is not signed in has called handleBooking with
\* a selection and the showtime loaded, after a signed-in client has booked.
SignedOutSubmitted ==
    /\ lastCall.op = "handleBooking"
    /\ lastCall.user = NoUser
    /\ Len(lastCall.selectedSeats) > 0
    /\ lastCall.showtime # Null
    /\ \E b \in bookings : b.user_id \in Users

\* C16: every call of handleBooking that ends without a confirmed booking,
\* on its first line or in its catch, ends with the failure toast shown.
EveryFailureReported ==
    [][\A c \in Clients :
        (\/ (Called /\ lastCall'.client = c /\ hb'[c].pc = "idle")
         \/ (hb[c].pc = "catch" /\ hb'[c].pc = "idle"))
        => toast'[c] = "Booking failed"]_vars

-----------------------------------------------------------------------------
\* C18: with the change events delivered late, together or not at all, no
\* two booked_seats rows have the same (showtime_id, seat_label), and the
\* insert of the seat reservations of a submission that contains a seat with
\* a record in the store is rejected and adds no row.
SafetyWithoutFeed ==
    [][/\ \A r1, r2 \in booked_seats' :
            (r1.showtime_id = r2.showtime_id /\ r1.seat_label = r2.seat_label) => r1 = r2
       /\ \A c \in Clients :
            (/\ hb[c].pc = "insertSeats"
             /\ hb'[c].pc # "insertSeats"
             /\ Range(hb[c].selectedSeats) \cap Reserved(hb[c].showtimeId) # {})
            => (hb'[c].pc = "catch" /\ booked_seats' = booked_seats)]_vars

\* C18 witness: the events of a booking were lost at a client (none is
\* pending, no fetch is running and its seat map still shows the seat as
\* free), it has submitted the seat and was rejected.
StaleSubmissionRejected ==
    \E c \in Clients :
        /\ hb[c].pc = "catch"
        /\ hb[c].error = "conflict"
        /\ notif[c] = {}
        /\ fetches[c] = {}
        /\ \E i \in DOMAIN seats[c] :
            /\ ~seats[c][i].isBooked
            /\ seats[c][i].label \in Reserved(showtimeId[c])
            /\ Includes(hb[c].selectedSeats, seats[c][i].label)

-----------------------------------------------------------------------------
\* C19: when no event is lost, a client that has no event pending and no
\* fetch running shows as booked exactly the seats that have a record in the
\* store.
FeedConverges ==
    \A c \in Clients :
        (Rendered(c) /\ notif[c] = {} /\ fetches[c] = {})
            => Displayed(c) = Reserved(showtimeId[c])

\* C20: the delivery of change events to a client leaves its seat map as it
\* is and starts a fetch that has read nothing yet; what a fetch has as booked
\* is what the store answers its read with, and the seat map of an open page
\* changes only when the answer of a fetch is applied, to the expansion of
\* the layout marked with that answer.
NotificationIsBareSignal ==
    [][\A c \in Clients :
        /\ (notif[c] # {} /\ notif'[c] = {} /\ showtimeId'[c] = showtimeId[c])
            => /\ seats'[c] = seats[c]
               /\ [pc |-> "read", bookedSeats |-> {}] \in fetches'[c]
        /\ \A f \in fetches'[c] \ fetches[c] :
                f.pc = "apply" => f.bookedSeats = Reserved(showtimeId[c])
        /\ (seats'[c] # seats[c] /\ showtimeId'[c] = showtimeId[c])
            => \E f \in fetches[c] \ fetches'[c] :
                /\ f.pc = "apply"
                /\ seats'[c] = AllSeats(showtime[c].seat_layout.seats, f.bookedSeats)]_vars

\* C20 witness: the events of a booking were delivered to a client whose
\* seat map is on screen: none is pending, the fetch is about to read and the
\* seat map is still the old one.
RefetchOnEvent ==
    \E c \in Clients :
        /\ Rendered(c)
        /\ notif[c] = {}
        /\ [pc |-> "read", bookedSeats |-> {}] \in fetches[c]
        /\ Displayed(c) # Reserved(showtimeId[c])

-----------------------------------------------------------------------------
\* C21: a client whose channel is joined (again, after an interruption),
\* with no event pending and no fetch running, shows as booked exactly the
\* seats that have a record in the store.
ReconnectRefreshes ==
    \A c \in Clients :
        (/\ Rendered(c)
         /\ channel[c] = {Subscription(showtimeId[c])}
         /\ notif[c] = {}
         /\ fetches[c] = {})
        => Displayed(c) = Reserved(showtimeId[c])

-----------------------------------------------------------------------------
\* C22: a submission is rejected on a conflict only if one of its seats has
\* a record for its own showtime, and a seat map shows as booked only seats
\* that have a record for the showtime of the page; records of the same seat
\* for another showtime do neither.
ReservationsScopedPerShowtime ==
    \A c \in Clients :
        /\ (hb[c].pc = "catch" /\ hb[c].error = "conflict")
                => Range(hb[c].selectedSeats) \cap Reserved(hb[c].showtimeId) # {}
        /\ Rendered(c) => Displayed(c) \subseteq Reserved(showtimeId[c])

\* C22 witness: the same seat has a record for each of two showtimes.
SameSeatInBothShowtimes ==
    \E r1, r2 \in booked_seats :
        r1.seat_label = r2.seat_label /\ r1.showtime_id # r2.showtime_id

\* C30: a client has at most one channel, none when the page is not open;
\* the filter of the channel is the showtime of the page, and every event
\* pending for the client is for that showtime, so that no event starts a
\* fetch after the cleanup or for a showtime that the client has left.
SubscriptionFollowsPage ==
    \A c \in Clients :
        /\ Cardinality(channel[c]) <= 1
        /\ \A s \in channel[c] : s.filter = showtimeId[c]
        /\ showtimeId[c] = NoShowtime => (channel[c] = {} /\ notif[c] = {})
        /\ \A e \in notif[c] : e.new.showtime_id = showtimeId[c]

\* C30 witness: a client has the page of one showtime open, its channel has
\* the filter of that showtime, and a booking of the other showtime has left
\* no event pending for it.
OtherShowtimeNotNotified ==
    \E c \in Clients :
        /\ Rendered(c)
        /\ showtimeId[c] = "st2"
        /\ channel[c] = {Subscription("st2")}
        /\ Reserved("st1") # {}
        /\ Reserved("st2") = {}
        /\ notif[c] = {}
        /\ fetches[c] = {}

\* a step in which toggleSeat is called
Toggled == lastCall' # lastCall /\ lastCall'.op = "toggleSeat"

\* a step in which a client that has no submission in flight leaves the page
Left ==
    \E c \in Clients :
        showtimeId[c] # NoShowtime /\ showtimeId'[c] = NoShowtime /\ hb[c].pc = "idle"

\* C23: a call of toggleSeat, and leaving the page before submitting, leave
\* bookings and booked_seats as they are.
SelectingWritesNothing ==
    [][(Toggled \/ Left) => UNCHANGED <<bookings, booked_seats>>]_vars

\* C23 witness: a client has made a selection with its last click and has
\* left the page, and the store has no row of it.
SelectionAbandoned ==
    \E c \in Clients :
        /\ lastCall.op = "toggleSeat"
        /\ lastCall.client = c
        /\ toggleSeat(lastCall.prev, lastCall.seatLabel, lastCall.isBooked) # <<>>
        /\ toggleSeat(lastCall.prev, lastCall.seatLabel, lastCall.isBooked) # lastCall.prev
        /\ showtimeId[c] = NoShowtime
        /\ \A b \in bookings : b.user_id # UserOf(c)
        /\ \A r \in booked_seats : \E b \in bookings : b.id = r.booking_id

\* C24: in every state of the store, the seats that have a record of a
\* booking are all the seats the booking asked for, or none of them.
AllSeatsOrNone ==
    \A b \in bookings :
        {r.seat_label : r \in RecordsOf(b.id)} \in {{}, Range(b.seats)}

\* C24 witness: a submission of two seats, one of which was reserved by
\* another booking, has been rejected and has no record.
PartialConflictLeftNoRecord ==
    \E c \in Clients :
        /\ hb[c].pc = "catch"
        /\ hb[c].error = "conflict"
        /\ Len(hb[c].selectedSeats) = 2
        /\ Cardinality(Range(hb[c].selectedSeats) \cap Reserved(hb[c].showtimeId)) = 1
        /\ RecordsOf(hb[c].bookingId) = {}

\* C25: when a submission of a client has failed and its refreshed seat map
\* shows a seat of its selection as booked, a click on a seat of the map
\* removes that seat from the selection.
CanDeselectBookedSeat ==
    \A c \in Clients :
        (Rendered(c) /\ toast[c] = "Booking failed" /\ hb[c].pc = "idle") =>
            \A i \in DOMAIN seats[c] :
                (seats[c][i].isBooked /\ Includes(selectedSeats[c], seats[c][i].label)) =>
                    \E j \in DOMAIN seats[c] :
                        ~Includes(toggleSeat(selectedSeats[c], seats[c][j].label,
                                             seats[c][j].isBooked),
                                  seats[c][i].label)

\* C26: no selection holds a label twice; a click on a seat that is not
\* booked adds exactly that seat when it was not selected and removes exactly
\* that seat when it was, and a second click on it gives the seats that were
\* selected before the first one.
SelectionIsSet ==
    /\ \A c \in Clients : \A i, j \in DOMAIN selectedSeats[c] :
            i # j => selectedSeats[c][i] # selectedSeats[c][j]
    /\ (lastCall.op = "toggleSeat" /\ ~lastCall.isBooked) =>
            LET prev == lastCall.prev
                l == lastCall.seatLabel
                now == selectedSeats[lastCall.client]
            IN  /\ ~Includes(prev, l) =>
                        /\ Range(now) = Range(prev) \cup {l}
                        /\ Len(now) = Len(prev) + 1
                /\ Includes(prev, l) =>
                        /\ Range(now) = Range(prev) \ {l}
                        /\ Len(now) = Len(prev) - 1
                /\ Range(toggleSeat(now, l, FALSE)) = Range(prev)

\* C26 witness: a click has removed one seat of a selection of two.
OneOfTwoDeselected ==
    /\ lastCall.op = "toggleSeat"
    /\ ~lastCall.isBooked
    /\ Len(lastCall.prev) = 2
    /\ Includes(lastCall.prev, lastCall.seatLabel)
    /\ Len(selectedSeats[lastCall.client]) = 1

RECURSIVE SeatsBefore(_, _)
\* the number of columns 1..cols of the row descriptors before the k-th
SeatsBefore(rows, k) ==
    IF k <= 1 THEN 0
    ELSE SeatsBefore(rows, k - 1) + Cardinality(1..rows[k - 1].cols)

\* C27: the seat map expanded from a hall layout lists the seats of the
\* first row descriptor, columns 1 to cols in increasing order, then those of
\* the second, and so on, and nothing else; each seat has the row label, the
\* column number and the type of its descriptor.
ExpansionInDeclarationOrder ==
    \A c \in Clients :
        Rendered(c) =>
            LET rows == showtime[c].seat_layout.seats
            IN  /\ Len(seats[c]) = SeatsBefore(rows, Len(rows) + 1)
                /\ \A k \in DOMAIN rows : \A col \in 1..rows[k].cols :
                        LET seat == seats[c][SeatsBefore(rows, k) + col]
                        IN  /\ seat.label = SeatLabel(rows[k].row, col)
                            /\ seat.row = rows[k].row
                            /\ seat.col = col
                            /\ seat.type = rows[k].type

\* C27 witness: a seat map of two rows that differ in label and type, the
\* first with two seats, is on screen.
TwoRowsExpanded ==
    \E c \in Clients :
        /\ Rendered(c)
        /\ Len(showtime[c].seat_layout.seats) = 2
        /\ showtime[c].seat_layout.seats[1].cols = 2
        /\ showtime[c].seat_layout.seats[2].cols = 1
        /\ showtime[c].seat_layout.seats[1].row # showtime[c].seat_layout.seats[2].row
        /\ showtime[c].seat_layout.seats[1].type # showtime[c].seat_layout.seats[2].type
        /\ Len(seats[c]) = 3

\* a step in which a read of a fetchShowtimeAndSeats call of client c fails,
\* the call being one that an event started (the page is not loading)
RefreshFailed(c) ==
    /\ showtimeId[c] # NoShowtime
    /\ ~loading[c]
    /\ fetches'[c] # fetches[c]
    /\ quota'.faults < quota.faults

\* C28: when a read of a fetchShowtimeAndSeats call that an event started
\* fails, the seat map and the selection of the client are the ones before
\* the failure and loading is false.
FailedRefreshKeepsView ==
    [][\A c \in Clients :
        RefreshFailed(c) =>
            /\ seats'[c] = seats[c]
            /\ selectedSeats'[c] = selectedSeats[c]
            /\ ~loading'[c]]_vars

\* C28 witness: after a failed refresh a client has a seat map that does not
\* show a seat that is reserved, and its selection.
StaleViewAfterFailedRefresh ==
    \E c \in Clients :
        /\ toast[c] = "Error loading seats"
        /\ ~loading[c]
        /\ seats[c] # <<>>
        /\ selectedSeats[c] # <<>>
        /\ Displayed(c) # Reserved(showtimeId[c])

\* C29: every row of booked_seats references a booking and a showtime that
\* exist, and every booking a showtime that exists; after the deletion of a
\* booking no row references it, and after the deletion of a showtime no
\* booking and no row references it, so that the unique constraint does not
\* reject a new reservation of a seat that only the deleted booking held.
DeletionCascades ==
    /\ \A r \in booked_seats :
            /\ r.showtime_id \in DOMAIN showtimes
            /\ BookingsWithId(r.booking_id) # {}
    /\ \A b \in bookings : b.showtime_id \in DOMAIN showtimes
    /\ lastCall.op = "deleteBooking" =>
            /\ BookingsWithId(lastCall.row.id) = {}
            /\ RecordsOf(lastCall.row.id) = {}
            /\ \A l \in Range(lastCall.row.seats) :
                    \/ ~ViolatesUnique(booked_seats,
                            seatReservations(<<l>>, lastCall.row.showtime_id, nextId))
                    \/ \E r \in booked_seats :
                            /\ r.seat_label = l
                            /\ r.showtime_id = lastCall.row.showtime_id
                            /\ r.booking_id # lastCall.row.id
    /\ lastCall.op = "deleteShowtime" =>
            /\ lastCall.row.id \notin DOMAIN showtimes
            /\ \A b \in bookings : b.showtime_id # lastCall.row.id
            /\ \A r \in booked_seats : r.showtime_id # lastCall.row.id

\* C29 witness: a seat that a deleted booking held has been reserved again,
\* by a booking made after the deletion.
SeatOfDeletedBookingReservedAgain ==
    /\ lastCall.op = "deleteBooking"
    /\ \E r \in booked_seats :
            /\ r.seat_label \in Range(lastCall.row.seats)
            /\ r.showtime_id = lastCall.row.showtime_id
            /\ r.booking_id > lastCall.row.id
            /\ outcome[r.booking_id] = "success"

\* C31: every row of booked_seats references a booking that exists, is for
\* the showtime of the row and has the seat of the row in its seats list.
RecordsBelongToBooking ==
    \A r \in booked_seats :
        \E b \in bookings :
            /\ b.id = r.booking_id
            /\ b.showtime_id = r.showtime_id
            /\ Includes(b.seats, r.seat_label)

\* C31 witness: handleBooking has created a booking of two seats of the
\* second showtime and both of its records.
TwoRecordsOfOneSubmission ==
    \E b \in bookings :
        /\ b.showtime_id = "st2"
        /\ Len(b.seats) = 2
        /\ {r.seat_label : r \in RecordsOf(b.id)} = Range(b.seats)
        /\ \A r \in RecordsOf(b.id) : r.showtime_id = "st2"

\* the handleBooking calls of client c that are running
InFlight(c) == orphans[c] \cup (IF hb[c].pc # "idle" THEN {hb[c]} ELSE {})

\* C32: a client never has two handleBooking calls in flight at once.
OneSubmissionInFlight ==
    \A c \in Clients : Cardinality(InFlight(c)) <= 1

\* C33: the seats of the bookings row that a handleBooking call inserts are
\* the selection of the page at the click; the call keeps that list while
\* it runs, whatever is clicked or refreshed meanwhile, and the records it
\* inserts are for the seats of that list and reference that row.
SubmissionWritesSnapshot ==
    [][\A c \in Clients :
        /\ (hb[c].pc = "idle" /\ hb'[c].pc # "idle") =>
                /\ hb'[c].selectedSeats = selectedSeats[c]
                /\ \A b \in bookings' \ bookings : b.seats = selectedSeats[c]
        /\ (hb[c].pc # "idle" /\ hb'[c].pc # "idle") =>
                hb'[c].selectedSeats = hb[c].selectedSeats
        /\ (hb[c].pc = "insertSeats" /\ hb'[c].pc = "ok") =>
                /\ {r.seat_label : r \in booked_seats' \ booked_seats}
                        = Range(hb[c].selectedSeats)
                /\ \A r \in booked_seats' \ booked_seats :
                        /\ r.booking_id = hb[c].bookingId
                        /\ \A b \in BookingsWithId(r.booking_id) :
                                b.seats = hb[c].selectedSeats]_vars

\* C33 witness: the records of a submission are in the store and the
\* selection of the page, changed while the submission was in flight, is not
\* the list of seats of its bookings row.
SelectionChangedInFlight ==
    \E c \in Clients :
        /\ hb[c].pc = "ok"
        /\ selectedSeats[c] # hb[c].selectedSeats
        /\ {r.seat_label : r \in RecordsOf(hb[c].bookingId)} = Range(hb[c].selectedSeats)
        /\ Range(selectedSeats[c]) # Range(hb[c].selectedSeats)

====
